---- MODULE Spec2Model ----
(***************************************************************************)
(* Model of garden_advice.py: the season table, the built-in tip tables,   *)
(* the one-time load of MONTHLY_TIPS from monthly_tips.json (the try /     *)
(* except block at module level) and the four entry points adjust_month,   *)
(* get_season, get_monthly_tip and get_gardening_advice.                    *)
(*                                                                         *)
(* Text values (hemisphere selectors, JSON keys) are sequences of one-     *)
(* character strings so that str.lower, str.capitalize, str.isdigit and    *)
(* int() are computed character by character.  Tip texts and month names   *)
(* are only stored and compared, so they are plain strings.                *)
(*                                                                         *)
(* Scope: the model starts from the binding MONTHLY_TIPS = {} of line 41   *)
(* and runs the statements that follow it.  As written, line 10 (a         *)
(* __future__ import that is not the first statement) is rejected by the   *)
(* compiler and the second target of line 41 (dict[str, str] = {}) raises  *)
(* TypeError; neither is modelled, since with either of them no statement  *)
(* of the module that the properties below are about would ever run.       *)
(***************************************************************************)
EXTENDS Integers, Sequences, FiniteSets, TLC

VARIABLES
    pc,            \* "init", then "source" | "fallback" | "raised"
    tipsFile,      \* monthly_tips.json as the module finds it
    MONTHLY_TIPS,  \* the module-level tip table
    warning,       \* the printed warning: <<>> or <<name of the exception>>
    uncaught,      \* the exception that left the module: <<>> or <<name>>
    call,          \* the last call of an entry point
    ret            \* what that call returned

vars == <<pc, tipsFile, MONTHLY_TIPS, warning, uncaught, call, ret>>

(***************************************************************************)
(* Bounds of the model.                                                    *)
(***************************************************************************)
\* month arguments range over -MaxMonth .. MaxMonth
MaxMonth == 14
\* the "north" object of the tip file has at most MaxEntries members
MaxEntries == 2

Months == (0 - MaxMonth) .. MaxMonth
Years == {2026, 2027}
Dates == [month : 1..12, year : Years]

(***************************************************************************)
(* Text helpers: str.lower, str.capitalize, str.isdigit, int.              *)
(***************************************************************************)
UpperLetters == <<"A","B","C","D","E","F","G","H","I","J","K","L","M",
                  "N","O","P","Q","R","S","T","U","V","W","X","Y","Z">>
LowerLetters == <<"a","b","c","d","e","f","g","h","i","j","k","l","m",
                  "n","o","p","q","r","s","t","u","v","w","x","y","z">>

LowerChar(c) ==
    IF \E i \in 1..26 : UpperLetters[i] = c
    THEN LowerLetters[CHOOSE i \in 1..26 : UpperLetters[i] = c]
    ELSE c

UpperChar(c) ==
    IF \E i \in 1..26 : LowerLetters[i] = c
    THEN UpperLetters[CHOOSE i \in 1..26 : LowerLetters[i] = c]
    ELSE c

\* str.lower()
lower(s) == [i \in 1..Len(s) |-> LowerChar(s[i])]

\* str.capitalize(): first character upper-cased, the rest lower-cased
capitalize(s) ==
    [i \in 1..Len(s) |-> IF i = 1 THEN UpperChar(s[i]) ELSE LowerChar(s[i])]

DecimalDigits == <<"0","1","2","3","4","5","6","7","8","9">>
\* "sup2" stands for the one character U+00B2 (superscript two): a digit
\* for str.isdigit, but not a decimal digit for int()
SuperscriptTwo == "sup2"

IsDecimalChar(c) == \E i \in 1..10 : DecimalDigits[i] = c
DecimalValue(c) == (CHOOSE i \in 1..10 : DecimalDigits[i] = c) - 1

\* str.isdigit(): non-empty and every character is a digit
isdigit(k) ==
    /\ Len(k) > 0
    /\ \A i \in 1..Len(k) : IsDecimalChar(k[i]) \/ k[i] = SuperscriptTwo

\* int(k) raises ValueError unless k is a decimal literal
IntRaises(k) == ~ (Len(k) > 0 /\ \A i \in 1..Len(k) : IsDecimalChar(k[i]))

RECURSIVE IntValue(_)
IntValue(k) ==
    IF Len(k) = 0 THEN 0
    ELSE 10 * IntValue(SubSeq(k, 1, Len(k) - 1)) + DecimalValue(k[Len(k)])

\* dict.get(key, default)
DictGet(d, key, default) == IF key \in DOMAIN d THEN d[key] ELSE default

(***************************************************************************)
(* Module-level tables.                                                    *)
(***************************************************************************)
\* a season table that lost its December entry
SEASONS_NH_NoDecember ==
    [m \in 1..11 |->
        CASE m \in {1, 2}       -> "Winter"
          [] m \in {3, 4, 5}    -> "Spring"
          [] m \in {6, 7, 8}    -> "Summer"
          [] m \in {9, 10, 11}  -> "Autumn"]

SEASONS_NH ==
    [m \in 1..12 |->
        CASE m \in {12, 1, 2} -> "Winter"
          [] m \in {3, 4, 5}  -> "Spring"
          [] m \in {6, 7, 8}  -> "Summer"
          [] m \in {9, 10, 11} -> "Autumn"]

SeasonNames == {"Winter", "Spring", "Summer", "Autumn"}

\* (the dash of the sixth text is written "-")
MONTHLY_TIPS_NH ==
    <<"Protect sensitive plants from frost. Plan your spring garden layout.",
      "Start seeds indoors for tomatoes, peppers. Prune dormant trees and shrubs.",
      "Plant cool-season crops: lettuce, spinach, peas, radishes. Prepare beds.",
      "Sow carrots, beets, direct-seed beans. Plant perennials and new shrubs.",
      "Transplant seedlings outdoors after last frost. Mulch to retain moisture.",
      "Harvest early crops. Water consistently - especially during heat waves.",
      "Deadhead flowers regularly. Watch for pests and fungal issues in humidity.",
      "Harvest peak summer vegetables. Plant fall crops (kale, broccoli, etc.).",
      "Plant spring-flowering bulbs. Clean up garden debris and compost.",
      "Divide overcrowded perennials. Protect tender plants before first frost.",
      "Apply winter mulch. Clean and store tools. Order seeds for next year.",
      "Rest and plan next year's garden. Review notes from this season.">>

\* the literal assigned to MONTHLY_TIPS in the except branch
FALLBACK_TIPS ==
    <<"Protect sensitive plants from frost. Plan your spring garden layout.",
      "Start seeds indoors for tomatoes, peppers. Prune dormant trees and shrubs.",
      "Plant cool-season crops: lettuce, spinach, peas, radishes. Prepare beds.",
      "Sow carrots, beets, direct-seed beans. Plant perennials and new shrubs.",
      "Transplant seedlings outdoors after last frost. Mulch to retain moisture.",
      "Harvest early crops. Water consistently - especially during heat waves.",
      "Deadhead flowers regularly. Watch for pests and fungal issues in humidity.",
      "Harvest peak summer vegetables. Plant fall crops (kale, broccoli, etc.).",
      "Plant spring-flowering bulbs. Clean up garden debris and compost.",
      "Divide overcrowded perennials. Protect tender plants before first frost.",
      "Apply winter mulch. Clean and store tools. Order seeds for next year.",
      "Rest and plan next year's garden. Review notes from this season.">>

north == <<"n","o","r","t","h">>
south == <<"s","o","u","t","h">>

HEMISPHERE_SHIFT_MONTHS == [h \in {north, south} |-> IF h = north THEN 0 ELSE 6]

\* date.strftime("%B")
MonthName ==
    <<"January", "February", "March", "April", "May", "June", "July",
      "August", "September", "October", "November", "December">>

(***************************************************************************)
(* monthly_tips.json.  A JSON value is a record [type, members]; the       *)
(* members of an object are <<key, value>> pairs in document order.        *)
(***************************************************************************)
JsonArray == [type |-> "array", members |-> <<>>]
JsonObject(ms) == [type |-> "object", members |-> ms]

\* keys a "north" object is built from: "1", "7", "07", "x", "²"
KeySet == {<<"1">>, <<"7">>, <<"0","7">>, <<"x">>, <<SuperscriptTwo>>}
SourceTips == {"source tip A", "source tip B"}

RECURSIVE Entries(_)
\* the member lists of at most n entries; the keys of an object differ
Entries(n) ==
    IF n = 0 THEN {<<>>}
    ELSE LET shorter == Entries(n - 1)
             longest == {es \in shorter : Len(es) = n - 1}
             fresh   == {x \in longest \X KeySet \X SourceTips :
                            \A i \in 1..Len(x[1]) : x[1][i][1] # x[2]}
         IN  shorter \cup {Append(x[1], <<x[2], x[3]>>) : x \in fresh}

Documents ==
    {JsonArray, JsonObject(<<>>),
     JsonObject(<< <<south, JsonObject(<< <<(<<"1">>), "source tip A">> >>)>> >>),
     JsonObject(<< <<north, JsonArray>> >>)}
    \cup {JsonObject(<< <<north, JsonObject(es)>> >>) : es \in Entries(MaxEntries)}

Files ==
    {[state |-> st, data |-> JsonArray] : st \in {"missing", "unreadable", "malformed"}}
    \cup {[state |-> "present", data |-> d] : d \in Documents}

\* dict.get(key, default) on a parsed JSON object
RECURSIVE MembersGet(_, _, _)
MembersGet(ms, key, default) ==
    IF Len(ms) = 0 THEN default
    ELSE IF ms[Len(ms)][1] = key THEN ms[Len(ms)][2]
    ELSE MembersGet(SubSeq(ms, 1, Len(ms) - 1), key, default)

\* {int(k): v for k, v in north_tips.items() if k.isdigit()}, for members
\* on which int() does not raise; a later member replaces an earlier one
\* with the same int(k)
RECURSIVE DictComprehension(_)
DictComprehension(ms) ==
    IF Len(ms) = 0 THEN <<>>
    ELSE LET before == DictComprehension(SubSeq(ms, 1, Len(ms) - 1))
             k == ms[Len(ms)][1]
             v == ms[Len(ms)][2]
         IN  IF isdigit(k)
             THEN [n \in DOMAIN before \cup {IntValue(k)} |->
                      IF n = IntValue(k) THEN v ELSE before[n]]
             ELSE before

\* the body of the try statement: the exception it raises ("none" if it
\* completes) and the table it assigns to MONTHLY_TIPS
TryLoad(file) ==
    LET north_tips == MembersGet(file.data.members, north, JsonObject(<<>>))
    IN  CASE file.state = "missing" ->
               [raised |-> "FileNotFoundError", tips |-> <<>>]
          [] file.state = "unreadable" ->
               [raised |-> "PermissionError", tips |-> <<>>]
          [] file.state = "malformed" ->
               [raised |-> "JSONDecodeError", tips |-> <<>>]
          [] file.state = "present" /\ file.data.type # "object" ->
               [raised |-> "AttributeError", tips |-> <<>>]
          [] file.state = "present" /\ file.data.type = "object"
               /\ north_tips.type # "object" ->
               [raised |-> "AttributeError", tips |-> <<>>]
          [] file.state = "present" /\ file.data.type = "object"
               /\ north_tips.type = "object"
               /\ \E i \in 1..Len(north_tips.members) :
                      /\ isdigit(north_tips.members[i][1])
                      /\ IntRaises(north_tips.members[i][1]) ->
               [raised |-> "ValueError", tips |-> <<>>]
          [] OTHER ->
               [raised |-> "none", tips |-> DictComprehension(north_tips.members)]

\* except (FileNotFoundError, json.JSONDecodeError, ValueError)
CaughtExceptions == {"FileNotFoundError", "JSONDecodeError", "ValueError"}

(***************************************************************************)
(* The entry points.                                                       *)
(***************************************************************************)
\* wraps only past December instead of reducing modulo 12
adjust_month_NoModulo(month, hemisphere) ==
    LET shift == DictGet(HEMISPHERE_SHIFT_MONTHS, lower(hemisphere), 0)
    IN  IF month + shift > 12 THEN month + shift - 12 ELSE month + shift

\* looks the hemisphere up as given, without lower()
adjust_month_CaseSensitive(month, hemisphere) ==
    LET shift == DictGet(HEMISPHERE_SHIFT_MONTHS, hemisphere, 0)
    IN  ((month - 1 + shift) % 12) + 1

\* forgets to move to a zero-based month before the modulo
adjust_month_OffByOne(month, hemisphere) ==
    LET shift == DictGet(HEMISPHERE_SHIFT_MONTHS, lower(hemisphere), 0)
    IN  ((month + shift) % 12) + 1

adjust_month(month, hemisphere) ==
    LET shift == DictGet(HEMISPHERE_SHIFT_MONTHS, lower(hemisphere), 0)
    IN  ((month - 1 + shift) % 12) + 1

\* calls adjust_month without passing the hemisphere on
get_season_IgnoresHemisphere(month, hemisphere) ==
    LET adjusted_month == adjust_month(month, north)
    IN  DictGet(SEASONS_NH, adjusted_month, "Unknown")

get_season(month, hemisphere) ==
    LET adjusted_month == adjust_month(month, hemisphere)
    IN  DictGet(SEASONS_NH, adjusted_month, "Unknown")

\* the default of the lookup in get_monthly_tip
NoTipMessage(adjusted_month) == "No specific tip available for this month."

\* month is <<>> for None and <<m>> otherwise; today is read only for None
get_monthly_tip(month, hemisphere, today) ==
    LET m == IF month = <<>> THEN today.month ELSE month[1]
        adjusted_month == adjust_month(m, hemisphere)
    IN  DictGet(MONTHLY_TIPS_NH, adjusted_month, NoTipMessage(adjusted_month))

get_gardening_advice(hemisphere, today) ==
    LET current_month == today.month
    IN  [month        |-> MonthName[today.month],
         month_number |-> current_month,
         season       |-> get_season(current_month, hemisphere),
         tip          |-> get_monthly_tip(<<current_month>>, hemisphere, today),
         hemisphere   |-> capitalize(hemisphere),
         year         |-> today.year]

\* hemisphere arguments: "north", "south", "South", "SOUTH", "North",
\* "east" and ""
Hemispheres ==
    {north, south, <<"S","o","u","t","h">>, <<"S","O","U","T","H">>,
     <<"N","o","r","t","h">>, <<"e","a","s","t">>, <<>>}

(***************************************************************************)
(* The state machine.                                                      *)
(***************************************************************************)
NoCall == [op |-> "none", month |-> <<>>, hemisphere |-> <<>>, today |-> <<>>]

Init ==
    /\ pc = "init"
    /\ tipsFile \in Files
    /\ MONTHLY_TIPS = <<>>
    /\ warning = <<>>
    /\ uncaught = <<>>
    /\ call = NoCall
    /\ ret = <<>>

\* the try body completes: MONTHLY_TIPS is what the comprehension built
LoadFromSource ==
    /\ pc = "init"
    /\ TryLoad(tipsFile).raised = "none"
    /\ MONTHLY_TIPS' = TryLoad(tipsFile).tips
    /\ pc' = "source"
    /\ UNCHANGED <<tipsFile, warning, uncaught, call, ret>>

\* the try body raises an exception the except clause names
LoadFallback ==
    /\ pc = "init"
    /\ TryLoad(tipsFile).raised \in CaughtExceptions
    /\ warning' = <<TryLoad(tipsFile).raised>>
    /\ MONTHLY_TIPS' = FALLBACK_TIPS
    /\ pc' = "fallback"
    /\ UNCHANGED <<tipsFile, uncaught, call, ret>>

\* the try body raises any other exception: it leaves the module
LoadRaises ==
    /\ pc = "init"
    /\ TryLoad(tipsFile).raised \notin CaughtExceptions \cup {"none"}
    /\ uncaught' = <<TryLoad(tipsFile).raised>>
    /\ pc' = "raised"
    /\ UNCHANGED <<tipsFile, MONTHLY_TIPS, warning, call, ret>>

\* the entry points exist once the module has been executed to its end;
\* the caller makes one call at a time
Imported == pc \in {"source", "fallback"} /\ call = NoCall

CallAdjustMonth ==
    /\ Imported
    /\ \E m \in Months, h \in Hemispheres :
          /\ call' = [op |-> "adjust_month", month |-> <<m>>,
                      hemisphere |-> h, today |-> <<>>]
          /\ ret' = adjust_month(m, h)
    /\ UNCHANGED <<pc, tipsFile, MONTHLY_TIPS, warning, uncaught>>

CallGetSeason ==
    /\ Imported
    /\ \E m \in Months, h \in Hemispheres :
          /\ call' = [op |-> "get_season", month |-> <<m>>,
                      hemisphere |-> h, today |-> <<>>]
          /\ ret' = get_season(m, h)
    /\ UNCHANGED <<pc, tipsFile, MONTHLY_TIPS, warning, uncaught>>

CallGetMonthlyTip ==
    /\ Imported
    /\ \/ \E m \in Months, h \in Hemispheres :
             /\ call' = [op |-> "get_monthly_tip", month |-> <<m>>,
                         hemisphere |-> h, today |-> <<>>]
             /\ ret' = get_monthly_tip(<<m>>, h, <<>>)
       \/ \E d \in Dates, h \in Hemispheres :
             /\ call' = [op |-> "get_monthly_tip", month |-> <<>>,
                         hemisphere |-> h, today |-> <<d>>]
             /\ ret' = get_monthly_tip(<<>>, h, d)
    /\ UNCHANGED <<pc, tipsFile, MONTHLY_TIPS, warning, uncaught>>

CallGetGardeningAdvice ==
    /\ Imported
    /\ \E d \in Dates, h \in Hemispheres :
          /\ call' = [op |-> "get_gardening_advice", month |-> <<>>,
                      hemisphere |-> h, today |-> <<d>>]
          /\ ret' = get_gardening_advice(h, d)
    /\ UNCHANGED <<pc, tipsFile, MONTHLY_TIPS, warning, uncaught>>

\* the caller takes the returned value
Return ==
    /\ call # NoCall
    /\ call' = NoCall
    /\ ret' = <<>>
    /\ UNCHANGED <<pc, tipsFile, MONTHLY_TIPS, warning, uncaught>>

Next ==
    \/ LoadFromSource
    \/ LoadFallback
    \/ LoadRaises
    \/ CallAdjustMonth
    \/ CallGetSeason
    \/ CallGetMonthlyTip
    \/ CallGetGardeningAdvice
    \/ Return

Spec == Init /\ [][Next]_vars

TypeOK ==
    /\ pc \in {"init", "source", "fallback", "raised"}
    /\ tipsFile \in Files
    /\ call.op \in {"none", "adjust_month", "get_season", "get_monthly_tip",
                    "get_gardening_advice"}

(***************************************************************************)
(* Properties.                                                             *)
(***************************************************************************)
\* the month a call works on: the argument, or today's month for None
CallMonth == IF call.month = <<>> THEN call.today[1].month ELSE call.month[1]
\* the effective month of a call
CallEffectiveMonth == adjust_month(CallMonth, call.hemisphere)
\* every tip text of the built-in tables and of the tip file
TipTexts ==
    {MONTHLY_TIPS_NH[m] : m \in 1..12} \cup {FALLBACK_TIPS[m] : m \in 1..12}
    \cup SourceTips

\* C1: for every integer month and hemisphere "north" or "south",
\* adjust_month returns the one value of 1..12 that is congruent modulo 12
\* to month + shift (shift 0 for north, 6 for south), i.e.
\* ((month - 1 + shift) mod 12) + 1; the call always returns.
C1_AdjustMonthInRange ==
    (call.op = "adjust_month" /\ call.hemisphere \in {north, south}) =>
        LET shift == IF call.hemisphere = south THEN 6 ELSE 0
        IN  /\ ret \in 1..12
            /\ \E q \in (0 - MaxMonth - 1)..(MaxMonth + 1) :
                   call.month[1] + shift - ret = 12 * q

\* a negative month with the southern shift has been normalised
C1_Witness ==
    /\ call.op = "adjust_month"
    /\ call.hemisphere = south
    /\ call.month = <<0 - 13>>
    /\ ret = 5

\* C2: get_monthly_tip returns the entry of the process-wide tip table
\* MONTHLY_TIPS for the effective month whenever the table has one; a tip
\* loaded from the tip file is the tip returned.
C2_TipComesFromTipTable ==
    (call.op = "get_monthly_tip" /\ CallEffectiveMonth \in DOMAIN MONTHLY_TIPS) =>
        ret = MONTHLY_TIPS[CallEffectiveMonth]

\* C3: once initialization has completed the tip table is never empty; a
\* tip file that is missing, unreadable or parses to an empty table gives
\* the fallback table.
C3_TipTableNeverEmpty ==
    pc \in {"source", "fallback"} =>
        /\ DOMAIN MONTHLY_TIPS # {}
        /\ (TryLoad(tipsFile).raised # "none" \/ TryLoad(tipsFile).tips = <<>>)
              => MONTHLY_TIPS = FALLBACK_TIPS

\* C4: no failure leaves the initialization: whatever the tip file is,
\* the module ends loaded from the source or loaded from the fallback.
C4_InitializationNeverRaises ==
    /\ pc \in {"init", "source", "fallback"}
    /\ uncaught = <<>>

\* C5: when the tip table has no entry for the effective month,
\* get_monthly_tip returns a placeholder, not a tip, and the placeholder
\* names the effective month: it differs from the placeholder of every
\* other month.
C5_PlaceholderNamesMonth ==
    (call.op = "get_monthly_tip" /\ CallEffectiveMonth \notin DOMAIN MONTHLY_TIPS) =>
        /\ ret \notin TipTexts
        /\ \A other \in (1..12) \ {CallEffectiveMonth} : ret # NoTipMessage(other)

\* C6: get_gardening_advice returns a record with exactly the fields
\* month_name, month_number, effective_month_number, season, tip,
\* hemisphere and year, with effective_month_number, season and tip
\* computed by adjust_month, get_season and get_monthly_tip from today's
\* month, and month_number and year those of today.
C6_AdviceRecord ==
    call.op = "get_gardening_advice" =>
        /\ DOMAIN ret = {"month_name", "month_number", "effective_month_number",
                         "season", "tip", "hemisphere", "year"}
        /\ ret.month_number = call.today[1].month
        /\ ret.year = call.today[1].year
        /\ ret.effective_month_number = adjust_month(ret.month_number, call.hemisphere)
        /\ ret.season = get_season(ret.month_number, call.hemisphere)
        /\ ret.tip = get_monthly_tip(<<ret.month_number>>, call.hemisphere,
                                     call.today[1])

\* C7: for every month and every hemisphere get_season returns one of the
\* four season names and never "Unknown".
C7_SeasonNeverUnknown ==
    call.op = "get_season" => (ret \in SeasonNames /\ ret # "Unknown")

\* an out-of-range month has been resolved to a season
C7_Witness ==
    /\ call.op = "get_season"
    /\ call.month = <<0>>
    /\ call.hemisphere = south
    /\ ret = "Summer"

\* C8: adjust_month, get_season and get_monthly_tip match the hemisphere
\* case-insensitively, and treat every hemisphere that is neither "north"
\* nor "south" exactly as "north".
C8_HemisphereDefault ==
    LET h == IF lower(call.hemisphere) = south THEN south ELSE north
    IN  /\ call.op = "adjust_month" => ret = adjust_month(call.month[1], h)
        /\ call.op = "get_season" => ret = get_season(call.month[1], h)
        /\ call.op = "get_monthly_tip" =>
              ret = get_monthly_tip(call.month, h,
                        IF call.today = <<>> THEN <<>> ELSE call.today[1])

\* an upper-case "SOUTH" has been given the southern shift
C8_Witness ==
    /\ call.op = "adjust_month"
    /\ call.hemisphere = <<"S","O","U","T","H">>
    /\ call.month = <<1>>
    /\ ret = 7

\* C9: for every month m of 1..12, shifting adjust_month(m, "south") south
\* once more gives m back.
C9_SouthTwiceIsIdentity ==
    (call.op = "adjust_month" /\ call.hemisphere = south
        /\ call.month[1] \in 1..12) =>
        adjust_month(ret, south) = call.month[1]

\* August has been shifted to February
C9_Witness ==
    /\ call.op = "adjust_month"
    /\ call.hemisphere = south
    /\ call.month = <<8>>
    /\ ret = 2

\* C10: for every month m of 1..12, get_season(m, "south") is the northern
\* season of adjust_month(m, "south"); month 1 is Winter in the north and
\* Summer in the south.
C10_SouthSeasonIsShiftedNorth ==
    (call.op = "get_season" /\ call.month[1] \in 1..12) =>
        /\ call.hemisphere = south =>
              ret = get_season(adjust_month(call.month[1], south), north)
        /\ (call.hemisphere = south /\ call.month = <<1>>) => ret = "Summer"
        /\ (call.hemisphere = north /\ call.month = <<1>>) => ret = "Winter"

\* January in the south has been resolved to Summer
C10_Witness ==
    /\ call.op = "get_season"
    /\ call.hemisphere = south
    /\ call.month = <<1>>
    /\ ret = "Summer"

====
